---- MODULE Spec2Model ----
(***************************************************************************)
(* Model of config.py: the process-wide Config singleton, the .env file    *)
(* and os.environ it reads, and the operations that load, override,        *)
(* publish and validate the configuration.                                 *)
(***************************************************************************)
EXTENDS Naturals, Sequences, FiniteSets, TLC

VARIABLES
    config,     \* the fields of the Config singleton
    environ,    \* os.environ: variable name -> optional string
    dotenv,     \* the .env file: whether it exists, and its lines
    last,       \* the last operation: its name and its outcome
    ncalls,     \* number of calls made on the configuration module
    nwrites     \* number of outside writes to os.environ and the .env file

vars == <<config, environ, dotenv, last, ncalls, nwrites>>

(* ------------------------------ bounds --------------------------------- *)

MaxCalls == 2
MaxWrites == 2

(* ------------------------- optional values ----------------------------- *)

\* Optional[str]: None is the empty tuple, a string s is the 1-tuple <<s>>.
None == <<>>
Some(v) == <<v>>

\* Python truthiness of an Optional[str]: neither None nor "".
Truthy(o) == o # None /\ o[1] # ""

\* Python `a or b` on Optional[str].
OrElse(a, b) == IF Truthy(a) THEN a ELSE b

(* ------------------------------ Config --------------------------------- *)

DefaultModelId == "us.anthropic.claude-sonnet-4-20250514-v1:0"
DefaultRegion == "us-east-1"

\* Config.__init__ on a fresh instance.
FreshConfig ==
    [aws_bedrock_api_key |-> None,
     model_id |-> DefaultModelId,
     aws_region |-> DefaultRegion,
     use_iam_role |-> FALSE]

EnvNames ==
    {"AWS_BEDROCK_API_KEY", "AWS_BEDROCK_MODEL_ID", "AWS_REGION",
     "AWS_DEFAULT_REGION", "USE_IAM_ROLE", "AWS_EXECUTION_ENV",
     "AWS_LAMBDA_FUNCTION_NAME"}

\* str.lower() on the flag spellings the model draws from.
Lower(s) ==
    CASE s = "TRUE" -> "true"
      [] s = "Yes" -> "yes"
      [] s = "False" -> "false"
      [] OTHER -> s

\* value.lower() in ('true', '1', 'yes')
IsTrueWord(s) == Lower(s) \in {"true", "1", "yes"}

\* os.environ.get(name, default)
EnvGet(e, name, default) == IF e[name] = None THEN default ELSE e[name][1]

\* Mutant: the region is read from AWS_REGION alone.
LoadFromEnv_NoFallback(c, e) ==
    LET model_id == e["AWS_BEDROCK_MODEL_ID"]
        aws_region == e["AWS_REGION"]
        use_iam == IsTrueWord(EnvGet(e, "USE_IAM_ROLE", ""))
    IN  [aws_bedrock_api_key |-> e["AWS_BEDROCK_API_KEY"],
         model_id |-> IF Truthy(model_id) THEN model_id[1] ELSE c.model_id,
         aws_region |-> IF Truthy(aws_region) THEN aws_region[1] ELSE c.aws_region,
         use_iam_role |-> IF use_iam THEN TRUE ELSE c.use_iam_role]

\* Config.load_from_env
LoadFromEnv(c, e) ==
    LET model_id == e["AWS_BEDROCK_MODEL_ID"]
        aws_region == OrElse(e["AWS_REGION"], e["AWS_DEFAULT_REGION"])
        use_iam == IsTrueWord(EnvGet(e, "USE_IAM_ROLE", ""))
    IN  [aws_bedrock_api_key |-> e["AWS_BEDROCK_API_KEY"],
         model_id |-> IF Truthy(model_id) THEN model_id[1] ELSE c.model_id,
         aws_region |-> IF Truthy(aws_region) THEN aws_region[1] ELSE c.aws_region,
         use_iam_role |-> IF use_iam THEN TRUE ELSE c.use_iam_role]

\* The body of the loop of load_from_dotenv on one line of the file.  A line
\* is [assign, key, value]: assign is the test of line 66 (non-blank, not a
\* comment, holds '='), key and value are what lines 67-69 split and strip.
ApplyLine(c, line) ==
    IF ~line.assign THEN c
    ELSE CASE line.key = "AWS_BEDROCK_API_KEY" ->
                [c EXCEPT !.aws_bedrock_api_key = Some(line.value)]
           [] line.key = "AWS_BEDROCK_MODEL_ID" ->
                [c EXCEPT !.model_id = line.value]
           [] line.key \in {"AWS_REGION", "AWS_DEFAULT_REGION"} ->
                [c EXCEPT !.aws_region = line.value]
           [] line.key = "USE_IAM_ROLE" ->
                [c EXCEPT !.use_iam_role = IsTrueWord(line.value)]
           [] OTHER -> c

RECURSIVE ApplyLines(_, _)
ApplyLines(c, lines) ==
    IF lines = <<>> THEN c
    ELSE ApplyLines(ApplyLine(c, Head(lines)), Tail(lines))

\* Config.load_from_dotenv
LoadFromDotenv(c, f) == IF ~f.exists THEN c ELSE ApplyLines(c, f.lines)

\* Config.set_api_key, set_model_id, set_aws_region, set_use_iam_role
SetApiKey(c, api_key) == [c EXCEPT !.aws_bedrock_api_key = Some(api_key)]
SetModelId(c, model_id) == [c EXCEPT !.model_id = model_id]
SetAwsRegion(c, region) == [c EXCEPT !.aws_region = region]
SetUseIamRole(c, use_iam) == [c EXCEPT !.use_iam_role = use_iam]

\* Mutant: the mode tests `is not None` where the code tests truthiness.
AuthenticationMode_IsNotNone(c) ==
    IF c.aws_bedrock_api_key # None /\ ~c.use_iam_role
    THEN "api_key"
    ELSE "iam_role"

\* Config.authentication_mode
AuthenticationMode(c) ==
    IF Truthy(c.aws_bedrock_api_key) /\ ~c.use_iam_role
    THEN "api_key"
    ELSE "iam_role"

\* Mutant: AWS_REGION is written in the else branch of the test on
\* AWS_DEFAULT_REGION, so one call writes only one of the two variables.
PublishModelAndRegion_ElseBranch(c, e) ==
    LET e1 == IF c.model_id # ""
              THEN [e EXCEPT !["AWS_BEDROCK_MODEL_ID"] = Some(c.model_id)]
              ELSE e
    IN  IF c.aws_region # ""
        THEN IF e1["AWS_DEFAULT_REGION"] = None
             THEN [e1 EXCEPT !["AWS_DEFAULT_REGION"] = Some(c.aws_region)]
             ELSE [e1 EXCEPT !["AWS_REGION"] = Some(c.aws_region)]
        ELSE e1

\* The first half of Config.setup_environment: model id and region.
PublishModelAndRegion(c, e) ==
    LET e1 == IF c.model_id # ""
              THEN [e EXCEPT !["AWS_BEDROCK_MODEL_ID"] = Some(c.model_id)]
              ELSE e
    IN  IF c.aws_region # ""
        THEN [e1 EXCEPT !["AWS_REGION"] = Some(c.aws_region),
                        !["AWS_DEFAULT_REGION"] =
                            IF e1["AWS_DEFAULT_REGION"] = None
                            THEN Some(c.aws_region)
                            ELSE e1["AWS_DEFAULT_REGION"]]
        ELSE e1

\* Mutant: api_key mode does not export the credential.
PublishCredential_NoExport(c, e) ==
    IF AuthenticationMode(c) = "api_key"
    THEN e
    ELSE [e EXCEPT !["AWS_BEDROCK_API_KEY"] = None]

\* Mutant: role mode leaves the credential variable in the environment.
PublishCredential_NoDelete(c, e) ==
    IF AuthenticationMode(c) = "api_key"
    THEN IF Truthy(c.aws_bedrock_api_key)
         THEN [e EXCEPT !["AWS_BEDROCK_API_KEY"] = c.aws_bedrock_api_key]
         ELSE e
    ELSE e

\* The second half of Config.setup_environment: the credential variable.
PublishCredential(c, e) ==
    IF AuthenticationMode(c) = "api_key"
    THEN IF Truthy(c.aws_bedrock_api_key)
         THEN [e EXCEPT !["AWS_BEDROCK_API_KEY"] = c.aws_bedrock_api_key]
         ELSE e
    ELSE [e EXCEPT !["AWS_BEDROCK_API_KEY"] = None]

\* Config.setup_environment
SetupEnvironment(c, e) == PublishCredential(c, PublishModelAndRegion(c, e))

\* Config.is_configured
IsConfigured(c) == c.aws_bedrock_api_key # None \/ c.use_iam_role

\* Mutant: role mode is not checked for an empty region.
Validate_NoRegionCheck(c) ==
    IF AuthenticationMode(c) = "api_key"
    THEN IF ~Truthy(c.aws_bedrock_api_key) THEN "MissingCredentialError" ELSE "ok"
    ELSE "ok"

\* Mutant: the credential is required unless role mode was switched on.
Validate_CredentialFirst(c) ==
    IF ~Truthy(c.aws_bedrock_api_key) /\ ~c.use_iam_role
    THEN "MissingCredentialError"
    ELSE IF AuthenticationMode(c) = "iam_role" /\ c.aws_region = ""
         THEN "MissingRegionError"
         ELSE "ok"

\* Config.validate: "ok" when it returns, else the ValueError it raises.
Validate(c) ==
    IF AuthenticationMode(c) = "api_key"
    THEN IF ~Truthy(c.aws_bedrock_api_key) THEN "MissingCredentialError" ELSE "ok"
    ELSE IF c.aws_region = "" THEN "MissingRegionError" ELSE "ok"

\* Mutant: only AWS_EXECUTION_ENV is looked at.
InManagedRuntime_ExecutionEnvOnly(e) == Truthy(e["AWS_EXECUTION_ENV"])

\* os.environ.get('AWS_EXECUTION_ENV') or os.environ.get('AWS_LAMBDA_FUNCTION_NAME')
InManagedRuntime(e) ==
    Truthy(OrElse(e["AWS_EXECUTION_ENV"], e["AWS_LAMBDA_FUNCTION_NAME"]))

\* setup_config, lines 251-257: the two readers.
MergeSources(c, e, f, a) ==
    LET c1 == IF a.use_dotenv THEN LoadFromDotenv(c, f) ELSE c
    IN  IF a.use_env THEN LoadFromEnv(c1, e) ELSE c1

\* setup_config, lines 259-267: the explicit arguments.
MergeExplicit(c, a) ==
    LET c1 == IF Truthy(a.api_key) THEN SetApiKey(c, a.api_key[1]) ELSE c
        c2 == IF Truthy(a.model_id) THEN SetModelId(c1, a.model_id[1]) ELSE c1
        c3 == IF Truthy(a.aws_region) THEN SetAwsRegion(c2, a.aws_region[1]) ELSE c2
    IN  IF a.use_iam_role # None THEN SetUseIamRole(c3, a.use_iam_role[1]) ELSE c3

\* setup_config, lines 269-273: managed-runtime auto-detection.
AutoDetect(c, e) ==
    IF ~Truthy(c.aws_bedrock_api_key) /\ ~c.use_iam_role /\ InManagedRuntime(e)
    THEN SetUseIamRole(c, TRUE)
    ELSE c

\* setup_config: the configuration it returns, the environment it leaves,
\* and whether auto-detection (line 273) switched role mode on.
SetupConfig(c, e, f, a) ==
    LET merged == MergeExplicit(MergeSources(c, e, f, a), a)
        c1 == AutoDetect(merged, e)
    IN  [config |-> c1, environ |-> SetupEnvironment(c1, e),
         detected |-> c1 # merged]

\* ensure_configured: the configuration and environment it leaves, whether
\* auto-detection (line 305) switched role mode on, and "ok" when it returns
\* or the error validate raises.
EnsureConfigured(c, e, f) ==
    IF ~IsConfigured(c)
    THEN LET c1 == LoadFromEnv(LoadFromDotenv(c, f), e)
             c2 == IF ~IsConfigured(c1) /\ InManagedRuntime(e)
                   THEN SetUseIamRole(c1, TRUE)
                   ELSE c1
         IN  [config |-> c2, environ |-> SetupEnvironment(c2, e),
              detected |-> c2 # c1, result |-> Validate(c2)]
    ELSE [config |-> c, environ |-> e, detected |-> FALSE,
          result |-> Validate(c)]

(* ------------------------- inputs of the model ------------------------- *)

\* The values the outside (a shell, a test) writes to each variable.
EnvChoices(name) ==
    CASE name = "AWS_BEDROCK_API_KEY" -> {"", "env-key"}
      [] name = "AWS_BEDROCK_MODEL_ID" -> {"", "env-model"}
      [] name = "AWS_REGION" -> {"", "env-region"}
      [] name = "AWS_DEFAULT_REGION" -> {"", "env-default-region"}
      [] name = "USE_IAM_ROLE" -> {"TRUE", "false"}
      [] name = "AWS_EXECUTION_ENV" -> {"", "AWS_Lambda_python3.12"}
      [] name = "AWS_LAMBDA_FUNCTION_NAME" -> {"test-function"}

\* The lines a .env file is written with.
DotenvLine(k, v) == [assign |-> TRUE, key |-> k, value |-> v]
DotenvLines ==
    {[assign |-> FALSE, key |-> "", value |-> ""],
     DotenvLine("AWS_BEDROCK_API_KEY", ""),
     DotenvLine("AWS_BEDROCK_API_KEY", "file-key"),
     DotenvLine("AWS_BEDROCK_MODEL_ID", ""),
     DotenvLine("AWS_BEDROCK_MODEL_ID", "file-model"),
     DotenvLine("AWS_REGION", ""),
     DotenvLine("AWS_REGION", "file-region"),
     DotenvLine("AWS_DEFAULT_REGION", "file-default-region"),
     DotenvLine("USE_IAM_ROLE", "Yes"),
     DotenvLine("USE_IAM_ROLE", "false"),
     DotenvLine("LOG_LEVEL", "debug")}

\* The arguments of setup_config.
SetupArgs ==
    [api_key : {None, Some(""), Some("arg-key")},
     model_id : {None, Some("arg-model")},
     aws_region : {None, Some("arg-region")},
     use_iam_role : {None, Some(TRUE), Some(FALSE)},
     use_dotenv : BOOLEAN,
     use_env : BOOLEAN]

\* The arguments of the setters.
ApiKeyArgs == {"", "set-key"}
ModelIdArgs == {"", "set-model"}
RegionArgs == {"", "set-region"}

\* What `last` holds after an operation: its name, "ok" when it returned or
\* the error it raised, and whether it auto-detected a managed runtime.
Outcome(op, result, detected) ==
    [op |-> op, result |-> result, detected |-> detected]
Called(op, result) == Outcome(op, result, FALSE)

(* ------------------------------- Init ---------------------------------- *)

Init ==
    /\ config = FreshConfig
    /\ environ = [n \in EnvNames |-> None]
    /\ dotenv = [exists |-> FALSE, lines |-> <<>>]
    /\ last = Called("init", "ok")
    /\ ncalls = 0
    /\ nwrites = 0

(* ------------------- the outside: os.environ and .env ------------------ *)

\* The outside prepares the environment and the .env file before the module
\* is used: at process start, and again after a test has reset the
\* singleton (test_authentication.py resets, writes os.environ, then calls).
Preparing == last.op \in {"init", "reset", "os.environ", ".env"}

\* os.environ[name] = value
SetEnv ==
    /\ nwrites < MaxWrites
    /\ Preparing
    /\ \E name \in EnvNames : \E value \in EnvChoices(name) :
          environ' = [environ EXCEPT ![name] = Some(value)]
    /\ nwrites' = nwrites + 1
    /\ last' = Called("os.environ", "ok")
    /\ UNCHANGED <<config, dotenv, ncalls>>

\* os.environ.pop(name, None)
PopEnv ==
    /\ nwrites < MaxWrites
    /\ Preparing
    /\ \E name \in EnvNames :
          /\ environ[name] # None
          /\ environ' = [environ EXCEPT ![name] = None]
    /\ nwrites' = nwrites + 1
    /\ last' = Called("os.environ", "ok")
    /\ UNCHANGED <<config, dotenv, ncalls>>

\* A line is written to the .env file, which is created if it is missing.
WriteDotenv ==
    /\ nwrites < MaxWrites
    /\ Preparing
    /\ \E line \in DotenvLines :
          dotenv' = [exists |-> TRUE, lines |-> Append(dotenv.lines, line)]
    /\ nwrites' = nwrites + 1
    /\ last' = Called(".env", "ok")
    /\ UNCHANGED <<config, environ, ncalls>>

(* ----------------------------- the calls ------------------------------- *)

Call == ncalls < MaxCalls /\ ncalls' = ncalls + 1 /\ nwrites' = nwrites

\* Config._instance = None; Config._initialized = False, then the next Config()
Reset ==
    /\ Call
    /\ config' = FreshConfig
    /\ last' = Called("reset", "ok")
    /\ UNCHANGED <<environ, dotenv>>

CallLoadFromEnv ==
    /\ Call
    /\ config' = LoadFromEnv(config, environ)
    /\ last' = Called("load_from_env", "ok")
    /\ UNCHANGED <<environ, dotenv>>

CallLoadFromDotenv ==
    /\ Call
    /\ config' = LoadFromDotenv(config, dotenv)
    /\ last' = Called("load_from_dotenv", "ok")
    /\ UNCHANGED <<environ, dotenv>>

CallSetApiKey ==
    /\ Call
    /\ \E v \in ApiKeyArgs : config' = SetApiKey(config, v)
    /\ last' = Called("set_api_key", "ok")
    /\ UNCHANGED <<environ, dotenv>>

CallSetModelId ==
    /\ Call
    /\ \E v \in ModelIdArgs : config' = SetModelId(config, v)
    /\ last' = Called("set_model_id", "ok")
    /\ UNCHANGED <<environ, dotenv>>

CallSetAwsRegion ==
    /\ Call
    /\ \E v \in RegionArgs : config' = SetAwsRegion(config, v)
    /\ last' = Called("set_aws_region", "ok")
    /\ UNCHANGED <<environ, dotenv>>

CallSetUseIamRole ==
    /\ Call
    /\ \E v \in BOOLEAN : config' = SetUseIamRole(config, v)
    /\ last' = Called("set_use_iam_role", "ok")
    /\ UNCHANGED <<environ, dotenv>>

\* Mutant: in role mode the publisher clears the credential field together
\* with the variable.
CallSetupEnvironment_ClearsCredential ==
    /\ Call
    /\ environ' = SetupEnvironment(config, environ)
    /\ config' = IF AuthenticationMode(config) = "iam_role"
                 THEN [config EXCEPT !.aws_bedrock_api_key = None]
                 ELSE config
    /\ last' = Called("setup_environment", "ok")
    /\ UNCHANGED dotenv

CallSetupEnvironment ==
    /\ Call
    /\ environ' = SetupEnvironment(config, environ)
    /\ last' = Called("setup_environment", "ok")
    /\ UNCHANGED <<config, dotenv>>

\* Mutant: validate repairs an empty region with the default before it
\* reports it.
CallValidate_RepairsRegion ==
    /\ Call
    /\ last' = Called("validate", Validate(config))
    /\ config' = IF config.aws_region = ""
                 THEN SetAwsRegion(config, DefaultRegion)
                 ELSE config
    /\ UNCHANGED <<environ, dotenv>>

CallValidate ==
    /\ Call
    /\ last' = Called("validate", Validate(config))
    /\ UNCHANGED <<config, environ, dotenv>>

CallSetupConfig ==
    /\ Call
    /\ \E a \in SetupArgs :
          LET r == SetupConfig(config, environ, dotenv, a)
          IN  /\ config' = r.config
              /\ environ' = r.environ
              /\ last' = Outcome("setup_config", "ok", r.detected)
    /\ UNCHANGED dotenv

CallEnsureConfigured ==
    /\ Call
    /\ LET r == EnsureConfigured(config, environ, dotenv)
       IN  /\ config' = r.config
           /\ environ' = r.environ
           /\ last' = Outcome("ensure_configured", r.result, r.detected)
    /\ UNCHANGED dotenv

Next ==
    \/ SetEnv
    \/ PopEnv
    \/ WriteDotenv
    \/ Reset
    \/ CallLoadFromEnv
    \/ CallLoadFromDotenv
    \/ CallSetApiKey
    \/ CallSetModelId
    \/ CallSetAwsRegion
    \/ CallSetUseIamRole
    \/ CallSetupEnvironment
    \/ CallValidate
    \/ CallSetupConfig
    \/ CallEnsureConfigured

Spec == Init /\ [][Next]_vars

(* ------------------------ vocabulary of the claims --------------------- *)

\* The .env file holds an assignment to `key`.
FileSets(f, key) ==
    f.exists /\ \E i \in 1..Len(f.lines) : f.lines[i].assign /\ f.lines[i].key = key

\* The region the environment gives: AWS_REGION, or AWS_DEFAULT_REGION when
\* AWS_REGION is absent.
EnvRegion(e) ==
    IF e["AWS_REGION"] # None THEN e["AWS_REGION"] ELSE e["AWS_DEFAULT_REGION"]

\* This step is setup_config called with the arguments a.
IsSetupConfigWith(a) ==
    /\ last'.op = "setup_config"
    /\ SetupConfig(config, environ, dotenv, a) =
          [config |-> config', environ |-> environ', detected |-> last'.detected]

(* ------------------------------- C1 ------------------------------------ *)

\* C1: whenever setup_config is called with a non-absent explicit argument
\* for a field (credential, model identifier, region, role-mode flag), that
\* field of the returned Configuration equals the argument, whatever the
\* .env file and the environment hold.
C1_ExplicitArgumentWins ==
    [][\A a \in SetupArgs : IsSetupConfigWith(a) =>
          /\ a.api_key # None => config'.aws_bedrock_api_key = a.api_key
          /\ a.model_id # None => config'.model_id = a.model_id[1]
          /\ a.aws_region # None => config'.aws_region = a.aws_region[1]
          /\ a.use_iam_role # None => config'.use_iam_role = a.use_iam_role[1]]_vars

(* ------------------------------- C2 ------------------------------------ *)

\* C2: for every recognized key set both in the .env file and in the
\* environment, setup_config with both readers enabled and no explicit
\* argument for the field yields the environment's value, not the file's.
C2_EnvironmentOverridesFile ==
    [][\A a \in SetupArgs : (IsSetupConfigWith(a) /\ a.use_dotenv /\ a.use_env) =>
          /\ ( /\ a.api_key = None
               /\ FileSets(dotenv, "AWS_BEDROCK_API_KEY")
               /\ environ["AWS_BEDROCK_API_KEY"] # None )
             => config'.aws_bedrock_api_key = environ["AWS_BEDROCK_API_KEY"]
          /\ ( /\ a.model_id = None
               /\ FileSets(dotenv, "AWS_BEDROCK_MODEL_ID")
               /\ environ["AWS_BEDROCK_MODEL_ID"] # None )
             => config'.model_id = environ["AWS_BEDROCK_MODEL_ID"][1]
          /\ ( /\ a.aws_region = None
               /\ FileSets(dotenv, "AWS_REGION") \/ FileSets(dotenv, "AWS_DEFAULT_REGION")
               /\ EnvRegion(environ) # None )
             => config'.aws_region = EnvRegion(environ)[1]
          /\ ( /\ a.use_iam_role = None
               /\ FileSets(dotenv, "USE_IAM_ROLE")
               /\ environ["USE_IAM_ROLE"] # None )
             => config'.use_iam_role = IsTrueWord(environ["USE_IAM_ROLE"][1])]_vars

(* ------------------------------- C3 ------------------------------------ *)

\* C3: load_from_env overwrites only the fields whose variable is present:
\* a field whose variable is absent from the environment keeps the value it
\* had before the call, the credential included.
C3_AbsentVariableKeepsField ==
    [][last'.op = "load_from_env" =>
          /\ environ["AWS_BEDROCK_API_KEY"] = None
             => config'.aws_bedrock_api_key = config.aws_bedrock_api_key
          /\ environ["AWS_BEDROCK_MODEL_ID"] = None
             => config'.model_id = config.model_id
          /\ (environ["AWS_REGION"] = None /\ environ["AWS_DEFAULT_REGION"] = None)
             => config'.aws_region = config.aws_region
          /\ environ["USE_IAM_ROLE"] = None
             => config'.use_iam_role = config.use_iam_role]_vars

(* ------------------------------- C4 ------------------------------------ *)

\* C4 as stated: in every reachable state the mode is api_key exactly when
\* the credential is present (not absent) and roleModeEnabled is false.
C4_ModeByPresence ==
    (AuthenticationMode(config) = "api_key")
        <=> (config.aws_bedrock_api_key # None /\ ~config.use_iam_role)

\* C4 as amended: in every reachable state the mode is api_key exactly when
\* the credential is a non-empty string and roleModeEnabled is false, and
\* iam_role otherwise; whenever roleModeEnabled is true the mode is iam_role.
C4_ModeByNonEmptyCredential ==
    /\ AuthenticationMode(config) \in {"api_key", "iam_role"}
    /\ (AuthenticationMode(config) = "api_key")
          <=> ( /\ config.aws_bedrock_api_key # None
                /\ config.aws_bedrock_api_key # Some("")
                /\ config.use_iam_role = FALSE )
    /\ config.use_iam_role => AuthenticationMode(config) = "iam_role"

\* An empty credential with role mode off: the mode is iam_role.
C4_Witness ==
    /\ config.aws_bedrock_api_key = Some("")
    /\ ~config.use_iam_role
    /\ AuthenticationMode(config) = "iam_role"

(* ------------------------------- C5 ------------------------------------ *)

\* C5: setup_config called with explicit roleModeEnabled = false while a
\* managed-runtime marker is present returns roleModeEnabled = false, for
\* every credential state including no credential.
C5_ExplicitFalseSurvivesDetection ==
    [][\A a \in SetupArgs :
          ( /\ IsSetupConfigWith(a)
            /\ a.use_iam_role = Some(FALSE)
            /\ \/ environ["AWS_EXECUTION_ENV"] # None
               \/ environ["AWS_LAMBDA_FUNCTION_NAME"] # None )
          => config'.use_iam_role = FALSE]_vars

(* ------------------------------- C6 ------------------------------------ *)

\* No source sets a credential or the role-mode flag: not the state before
\* the call, not the .env file, not the environment, not the arguments a.
NoSourceSetsAuth(a) ==
    /\ config.aws_bedrock_api_key = None
    /\ config.use_iam_role = FALSE
    /\ ~FileSets(dotenv, "AWS_BEDROCK_API_KEY")
    /\ ~FileSets(dotenv, "USE_IAM_ROLE")
    /\ environ["AWS_BEDROCK_API_KEY"] = None
    /\ environ["USE_IAM_ROLE"] = None
    /\ a.api_key = None
    /\ a.use_iam_role = None

\* C6: from every reachable state where no source sets a credential or the
\* role-mode flag, setup_config returns roleModeEnabled = true and mode
\* iam_role if a managed-runtime marker is present with a non-empty value,
\* and roleModeEnabled = false if both markers are absent.
C6_AutoDetection ==
    \A a \in SetupArgs : NoSourceSetsAuth(a) =>
        LET r == SetupConfig(config, environ, dotenv, a).config
        IN  /\ ( \/ environ["AWS_EXECUTION_ENV"] \notin {None, Some("")}
                 \/ environ["AWS_LAMBDA_FUNCTION_NAME"] \notin {None, Some("")} )
               => (r.use_iam_role = TRUE /\ AuthenticationMode(r) = "iam_role")
            /\ ( /\ environ["AWS_EXECUTION_ENV"] = None
                 /\ environ["AWS_LAMBDA_FUNCTION_NAME"] = None )
               => r.use_iam_role = FALSE

\* setup_config has just auto-detected a managed runtime from the function
\* name marker alone, with no credential and no role flag in any source.
C6_Witness ==
    /\ last.op = "setup_config"
    /\ last.detected
    /\ environ["AWS_LAMBDA_FUNCTION_NAME"] = Some("test-function")
    /\ environ["AWS_EXECUTION_ENV"] = None
    /\ environ["USE_IAM_ROLE"] = None
    /\ ~dotenv.exists
    /\ config.aws_bedrock_api_key = None
    /\ config.use_iam_role = TRUE
    /\ AuthenticationMode(config) = "iam_role"

(* ------------------------------- C7 ------------------------------------ *)

\* What C7 says validate does in a configuration c.
C7_Expected(c) ==
    IF AuthenticationMode(c) = "api_key" /\ c.aws_bedrock_api_key = None
    THEN "MissingCredentialError"
    ELSE IF AuthenticationMode(c) = "iam_role" /\ c.aws_region = ""
         THEN "MissingRegionError"
         ELSE "ok"

\* C7: validate fails with the missing-credential error when the mode is
\* api_key and the credential is absent, with the missing-region error when
\* the mode is iam_role and the region is empty, and succeeds otherwise: in
\* every reachable state, and for every validate call made.
C7_ValidateOutcome ==
    /\ Validate(config) = C7_Expected(config)
    /\ last.op = "validate" => last.result = C7_Expected(config)

\* validate has just raised the missing-region error.
C7_Witness ==
    /\ last.op = "validate"
    /\ last.result = "MissingRegionError"
    /\ config.aws_region = ""

(* ------------------------------- C8 ------------------------------------ *)

\* C8: ensure_configured raises whenever the Configuration is not configured
\* on entry and is left with neither a credential nor role mode enabled.
C8_EnsureConfiguredFailsFast ==
    [][( /\ last'.op = "ensure_configured"
         /\ config.aws_bedrock_api_key = None /\ ~config.use_iam_role
         /\ config'.aws_bedrock_api_key = None /\ ~config'.use_iam_role )
       => last'.result # "ok"]_vars

(* ------------------------------- C9 ------------------------------------ *)

\* C9: from every reachable state, setup_config with a non-empty explicit
\* credential C and explicit role flag false returns a Configuration whose
\* mode is api_key and leaves AWS_BEDROCK_API_KEY = C in the environment.
C9_ExplicitCredentialPublished ==
    \A a \in SetupArgs :
        ( /\ a.api_key # None /\ a.api_key # Some("")
          /\ a.use_iam_role = Some(FALSE) )
        => LET r == SetupConfig(config, environ, dotenv, a)
           IN  /\ AuthenticationMode(r.config) = "api_key"
               /\ r.environ["AWS_BEDROCK_API_KEY"] = a.api_key

\* setup_config has just published the explicit credential in api_key mode.
C9_Witness ==
    /\ last.op = "setup_config"
    /\ config.aws_bedrock_api_key = Some("arg-key")
    /\ config.use_iam_role = FALSE
    /\ AuthenticationMode(config) = "api_key"
    /\ environ["AWS_BEDROCK_API_KEY"] = Some("arg-key")

(* ------------------------------- C10 ----------------------------------- *)

\* C10: whenever the environment publisher runs in a state whose mode is
\* iam_role, AWS_BEDROCK_API_KEY is absent from the environment afterwards:
\* for the publisher applied in any reachable state, and after every
\* setup_environment and setup_config call made.
C10_RoleModeRemovesCredentialVariable ==
    /\ AuthenticationMode(config) = "iam_role"
          => SetupEnvironment(config, environ)["AWS_BEDROCK_API_KEY"] = None
    /\ ( /\ last.op \in {"setup_environment", "setup_config"}
         /\ AuthenticationMode(config) = "iam_role" )
          => environ["AWS_BEDROCK_API_KEY"] = None

\* One outside write, then one call: setup_config read the credential the
\* environment held, resolved role mode, and removed the variable.
C10_Witness ==
    /\ last.op = "setup_config"
    /\ ncalls = 1 /\ nwrites = 1
    /\ config.aws_bedrock_api_key = Some("env-key")
    /\ config.use_iam_role = TRUE
    /\ environ["AWS_BEDROCK_API_KEY"] = None

(* ------------------------------- C11 ----------------------------------- *)

\* C11: the environment publisher is idempotent: in every reachable state,
\* applying setup_environment to the environment that one application left
\* changes nothing more, and the environment a setup_environment call has
\* just left is one a second call leaves as it is.  (The publisher assigns
\* no field of the Configuration: the same Configuration feeds both calls.)
C11_PublisherIdempotent ==
    /\ LET once == SetupEnvironment(config, environ)
       IN  SetupEnvironment(config, once) = once
    /\ last.op = "setup_environment"
          => SetupEnvironment(config, environ) = environ

\* setup_environment has just run where AWS_DEFAULT_REGION was already set
\* by the outside: it published the region to AWS_REGION and kept the
\* fallback variable, which differs from the region.
C11_Witness ==
    /\ last.op = "setup_environment"
    /\ environ["AWS_REGION"] = Some(config.aws_region)
    /\ environ["AWS_DEFAULT_REGION"] = Some("env-default-region")
    /\ environ["AWS_BEDROCK_MODEL_ID"] = Some(config.model_id)

(* ------------------------------- C12 ----------------------------------- *)

\* C12: in every state reached from a fresh Configuration by file reads,
\* environment reads, explicit overrides, setup_config and ensure_configured,
\* the model identifier and the region are not the empty string.
C12_ModelAndRegionNeverEmpty ==
    /\ config.model_id # ""
    /\ config.aws_region # ""

(* ------------------------------- C13 ----------------------------------- *)

\* C13: a step after which a credential that was set is absent again is a
\* reset of the singleton or a step that publishes to the environment in
\* role mode (setup_environment, or setup_config and ensure_configured, whose
\* last step it is); no file read, environment read, explicit override or
\* validation turns a present credential into an absent one.
C13_CredentialClearedOnlyByRolePublish ==
    [][( /\ config.aws_bedrock_api_key # None
         /\ config'.aws_bedrock_api_key = None )
       => \/ last'.op = "reset"
          \/ /\ last'.op \in {"setup_environment", "setup_config", "ensure_configured"}
             /\ AuthenticationMode(config') = "iam_role"]_vars

(* ------------------------------- C14 ----------------------------------- *)

\* C14: validate changes no state: after every validate step the four fields
\* of the Configuration, the environment and the .env file are what they
\* were before it, whether it returned or raised; the same holds of
\* ensure_configured on a configured Configuration, which only validates.
C14_ValidateChangesNothing ==
    [][( \/ last'.op = "validate"
         \/ last'.op = "ensure_configured" /\ IsConfigured(config) )
       => /\ config' = config
          /\ environ' = environ
          /\ dotenv' = dotenv]_vars

\* validate has just returned on an api_key Configuration whose credential
\* was read from the environment: the field and the variable still hold it.
C14_Witness ==
    /\ last.op = "validate"
    /\ last.result = "ok"
    /\ config.aws_bedrock_api_key = Some("env-key")
    /\ environ["AWS_BEDROCK_API_KEY"] = Some("env-key")

(* ------------------------------- C15 ----------------------------------- *)

\* The region resolved by load_from_env, and by setup_config with the
\* environment read enabled and no explicit region, is `region`.
C15_ResolvesRegion(region) ==
    /\ LoadFromEnv(config, environ).aws_region = region
    /\ \A a \in SetupArgs :
          (a.use_env /\ a.aws_region = None)
          => SetupConfig(config, environ, dotenv, a).config.aws_region = region

\* C15 as stated: in every reachable state where AWS_REGION is absent from
\* the environment and AWS_DEFAULT_REGION is present, the region resolved by
\* the environment reader, and by setup_config without an explicit region,
\* is the value of AWS_DEFAULT_REGION.
C15_FallbackPresent ==
    ( /\ environ["AWS_REGION"] = None
      /\ environ["AWS_DEFAULT_REGION"] # None )
    => C15_ResolvesRegion(environ["AWS_DEFAULT_REGION"][1])

\* C15 amended: in every reachable state where AWS_REGION is absent from the
\* environment and AWS_DEFAULT_REGION is present with a non-empty value, the
\* region resolved by the environment reader, and by setup_config with the
\* environment read enabled and no explicit region, is that value.
C15_FallbackNonEmpty ==
    ( /\ environ["AWS_REGION"] = None
      /\ Truthy(environ["AWS_DEFAULT_REGION"]) )
    => C15_ResolvesRegion(environ["AWS_DEFAULT_REGION"][1])

\* load_from_env has just run with only the fallback variable set by the
\* outside, and the region is the fallback's value.
C15_Witness ==
    /\ last.op = "load_from_env"
    /\ environ["AWS_REGION"] = None
    /\ environ["AWS_DEFAULT_REGION"] = Some("env-default-region")
    /\ config.aws_region = "env-default-region"

(* ------------------------------- C16 ----------------------------------- *)

\* The value the last assignment to `key` in the .env file gives it, absent
\* when the file holds none.
C16_FileValue(f, key) ==
    IF FileSets(f, key)
    THEN LET i == CHOOSE i \in 1..Len(f.lines) :
                     /\ f.lines[i].assign /\ f.lines[i].key = key
                     /\ \A j \in (i + 1)..Len(f.lines) :
                           ~(f.lines[j].assign /\ f.lines[j].key = key)
         IN  Some(f.lines[i].value)
    ELSE None

\* The environment that holds the key/value pairs of the .env file.
C16_SamePairsInEnvironment(f) == [n \in EnvNames |-> C16_FileValue(f, n)]

\* C16: for every .env file and every Configuration reached, the file reader
\* leaves the Configuration the environment reader leaves when the same
\* key/value pairs are in the environment: the same fields are assigned the
\* same values, an empty model identifier leaves the model identifier as it
\* was and a non-truthy USE_IAM_ROLE leaves the role flag as it was.
C16_ReadersAgree ==
    dotenv.exists
    => LoadFromDotenv(config, dotenv) =
          LoadFromEnv(config, C16_SamePairsInEnvironment(dotenv))

(* ------------------------------- C17 ----------------------------------- *)

C18_PublisherKeepsConfiguration ==
    [][last'.op = "setup_environment"
       => /\ config' = config
          /\ dotenv' = dotenv
          /\ AuthenticationMode(config) = "iam_role"
                => /\ config'.aws_bedrock_api_key = config.aws_bedrock_api_key
                   /\ environ'["AWS_BEDROCK_API_KEY"] = None]_vars

\* Two outside writes, then two calls: the credential and the role flag
\* were read from the environment, and setup_environment has just removed
\* the variable while the field still holds the credential.
C18_Witness ==
    /\ last.op = "setup_environment"
    /\ ncalls = 2 /\ nwrites = 2
    /\ config.aws_bedrock_api_key = Some("env-key")
    /\ config.use_iam_role = TRUE
    /\ environ["USE_IAM_ROLE"] = Some("TRUE")
    /\ environ["AWS_BEDROCK_API_KEY"] = None

(* ------------------------------- C19 ----------------------------------- *)

\* What C19 compares: the mode of the Configuration a call returns and the
\* four variables the publisher writes.
C19_Observed(r) ==
    <<AuthenticationMode(r.config),
      r.environ["AWS_BEDROCK_API_KEY"],
      r.environ["AWS_BEDROCK_MODEL_ID"],
      r.environ["AWS_REGION"],
      r.environ["AWS_DEFAULT_REGION"]>>

\* C19: in every reachable state where setup_config can be called, and for
\* every argument set, setup_config called a second time with the same
\* arguments, on the Configuration and the environment the first call left
\* and with the same .env file, returns the same authentication mode and
\* leaves the same AWS_BEDROCK_API_KEY, AWS_BEDROCK_MODEL_ID, AWS_REGION and
\* AWS_DEFAULT_REGION as the first.
C19_RepeatedSetupConfigStable ==
    ncalls < MaxCalls
    => \A a \in SetupArgs :
          LET first == SetupConfig(config, environ, dotenv, a)
              second == SetupConfig(first.config, first.environ, dotenv, a)
          IN  C19_Observed(second) = C19_Observed(first)

\* setup_config has run once with an explicit credential and published it
\* with the model identifier and the region; a second call, which reads what
\* the first published, can follow.
C19_Witness ==
    /\ last.op = "setup_config"
    /\ ncalls = 1
    /\ config.aws_bedrock_api_key = Some("arg-key")
    /\ environ["AWS_BEDROCK_API_KEY"] = Some("arg-key")
    /\ environ["AWS_BEDROCK_MODEL_ID"] = Some(config.model_id)
    /\ environ["AWS_REGION"] = Some(config.aws_region)

====
